---- MODULE Spec2Model ----
(***************************************************************************)
(* A state-machine model of the map components of the navigator app:       *)
(*   TrackingMarker           src/src/components/TrackingMarker.tsx        *)
(*   PlaceMapView             src/unnamed/part_000, lines 1-84             *)
(*   LiveOrderRoute           src/unnamed/part_000, lines 86-341           *)
(*   EditLocationCoordScreen  src/unnamed/part_001                         *)
(* Every component has its own variables, initial condition and next-state *)
(* relation; a component's specification leaves the other components at    *)
(* rest.  JavaScript numbers are modelled as integers.                     *)
(***************************************************************************)
EXTENDS Integers, Sequences, FiniteSets, TLC

\* ------------------------------------------------------------------------
\* Bounds of the model
\* ------------------------------------------------------------------------

\* Latitudes of the marker model are 0..MaxLat, longitudes 0..MaxLng.
MaxLat == 1

MaxLng == 1

\* Headings passed to rotate are 45 * k for k in -MaxHeadingTicks..MaxHeadingTicks.
MaxHeadingTicks == 9

\* initialRotation is 45 * k for k in -MaxInitialTicks..MaxInitialTicks.
MaxInitialTicks == 9

\* Places and map centres of EditLocationCoordScreen have latitudes
\* 0..MaxEditLat (and longitudes 0 or 1).
MaxEditLat == 1

\* At most MaxTimers reset timers are pending at a time.
MaxTimers == 2

\* At most MaxPendingUpdates place.update calls are unsettled at a time.
MaxPendingUpdates == 1

\* An order of LiveOrderRoute has at most MaxWaypoints waypoints.
MaxWaypoints == 1

\* At most MaxRequests directions requests are in flight at a time.
MaxRequests == 2

\* The zoom prop of PlaceMapView is any number; the model passes
\* -MaxZoom..MaxZoom.
MaxZoom == 16

\* ------------------------------------------------------------------------
\* JavaScript arithmetic
\* ------------------------------------------------------------------------

\* Math.abs
Abs(x) == IF x < 0 THEN -x ELSE x

\* Math.sign
Sign(x) == IF x > 0 THEN 1 ELSE IF x < 0 THEN -1 ELSE 0

\* The JavaScript remainder a % n: it truncates toward zero, so the result
\* has the sign of a.
JsRem(a, n) == IF a >= 0 THEN a % n ELSE -((-a) % n)

\* v || 0 on a number: 0 stays 0, any other number is kept.
OrZero(v) == IF v = 0 THEN 0 ELSE v

\* ------------------------------------------------------------------------
\* State
\* ------------------------------------------------------------------------

\* TrackingMarker
VARIABLES
    coordinate,          \* the coordinate prop of the latest render
    currentCoordinate,   \* useState: the coordinate handed to MarkerView
    rotation,            \* rotation._value of the Animated.Value
    rotationDeg,         \* useState fed by the listener on rotation
    timing,              \* the latest Animated.timing call, if any
    animating,           \* that animation has not reached toValue yet
    lastCoordinateWrite  \* the latest of: mount, move(...), a changed prop

markerVars == <<coordinate, currentCoordinate, rotation, rotationDeg, timing,
                animating, lastCoordinateWrite>>

\* PlaceMapView
VARIABLES
    pmMounted,      \* the component has rendered at least once
    pmPlace,        \* [latitude, longitude] = getCoordinates(place) of the latest render
    pmZoom,         \* the zoom prop of the latest render
    pmCamera,       \* the camera stop in effect on the map
    pmLastRender    \* what the latest render was: mount, coordinates, other

placeVars == <<pmMounted, pmPlace, pmZoom, pmCamera, pmLastRender>>

\* EditLocationCoordScreen
VARIABLES
    place,             \* the restored place: latitude, longitude, isNew
    centerCoordinate,  \* useState: [longitude, latitude], the Camera's prop
    isPanning,         \* useState
    mapCenter,         \* where the map's camera is: latitude, longitude
    cameraTarget,      \* <<t>> while the camera animates toward t, else <<>>
    touching,          \* a finger is on the map
    resetTimers,       \* setTimeout callbacks of handleReset not yet run
    pendingUpdates,    \* the number of place.update calls not yet settled
    savedPoint,        \* <<p>>: the Point built by the latest handleSave
    locationStateUpdated, \* updateLocationState has been called
    navigated,         \* navigation.reset has been called
    toastMessage,      \* the latest toast.error message, "" when none
    lastSettle,        \* how the latest place.update and its handleSave settled
    lastIdleCenter,    \* <<c>>: the map centre of the latest idle event with geometry
    sinceReset         \* what happened since the latest press of Reset

editVars == <<place, centerCoordinate, isPanning, mapCenter, cameraTarget,
              touching, resetTimers, pendingUpdates, savedPoint,
              locationStateUpdated, navigated, toastMessage, lastSettle,
              lastIdleCenter, sinceReset>>

\* LiveOrderRoute
VARIABLES
    lorMounted,      \* the component has rendered at least once
    order,           \* the order prop: pickup, dropoff, waypoints (places)
    requests,        \* the directions requests in flight, oldest first
    routeGeometry,   \* useState: <<>> for null, else <<geometry>>
    fitBoundsCall,   \* <<[ne, sw]>> when the latest step called fitBounds
    lastFetch,       \* the response of the latest step and what fetchDirections made of it
    latest           \* the most recently issued request: in flight or not, and what it returned

routeVars == <<lorMounted, order, requests, routeGeometry, fitBoundsCall,
               lastFetch, latest>>

vars == <<markerVars, placeVars, editVars, routeVars>>

\* ========================================================================
\* TrackingMarker
\* ========================================================================

Coordinates == [latitude : 0..MaxLat, longitude : 0..MaxLng]

DegreeGrid(n) == {45 * k : k \in -n..n}

Headings == DegreeGrid(MaxHeadingTicks)

InitialRotations == DegreeGrid(MaxInitialTicks)

\* No Animated.timing call has been made yet.
NoTiming == [called |-> FALSE, heading |-> 0, fromValue |-> 0, toValue |-> 0]

\* useState({latitude: coordinate.latitude, longitude: coordinate.longitude})
CoordinateState(c) == [latitude |-> c.latitude, longitude |-> c.longitude]

\* State after the first render and its effects: useState and useRef take
\* their initial values, the listener is attached, and the coordinate
\* effect has run once with the props of the mount.
TrackingMarkerInit ==
    /\ coordinate \in Coordinates
    /\ currentCoordinate = CoordinateState(coordinate)
    /\ rotation \in InitialRotations
    /\ rotationDeg = rotation
    /\ timing = NoTiming
    /\ animating = FALSE
    /\ lastCoordinateWrite = [by |-> "mount", latitude |-> coordinate.latitude,
                              longitude |-> coordinate.longitude]

\* A variant of the coordinate effect that has no dependency list: it runs
\* after every render.
CoordinateEffectEveryRender(prev, next) == TRUE

\* The dependency list of the coordinate effect:
\* [coordinate.latitude, coordinate.longitude].
CoordinateEffectRuns(prev, next) ==
    \/ prev.latitude # next.latitude
    \/ prev.longitude # next.longitude

\* The parent renders the marker again with coordinate prop c (possibly the
\* same values); the effect sets currentCoordinate when a dependency changed.
\* lastCoordinateWrite notes a change of the prop.
TrackingMarkerRender(c) ==
    /\ coordinate' = c
    /\ currentCoordinate' =
          IF CoordinateEffectRuns(coordinate, c)
             THEN CoordinateState(c)
             ELSE currentCoordinate
    /\ lastCoordinateWrite' =
          IF c.latitude # coordinate.latitude \/ c.longitude # coordinate.longitude
             THEN [by |-> "prop", latitude |-> c.latitude, longitude |-> c.longitude]
             ELSE lastCoordinateWrite
    /\ UNCHANGED <<rotation, rotationDeg, timing, animating>>
    /\ UNCHANGED <<placeVars, editVars, routeVars>>

\* move(newLatitude, newLongitude)
move(newLatitude, newLongitude) ==
    /\ currentCoordinate' = [latitude |-> newLatitude, longitude |-> newLongitude]
    /\ lastCoordinateWrite' = [by |-> "move", latitude |-> newLatitude,
                               longitude |-> newLongitude]
    /\ UNCHANGED <<coordinate, rotation, rotationDeg, timing, animating>>
    /\ UNCHANGED <<placeVars, editVars, routeVars>>

\* A variant of finalRotation without the remainder.
FinalRotationUnwrapped(currentRotation, newHeading) ==
    LET delta0 == newHeading - currentRotation
        delta  == IF Abs(delta0) > 180 THEN delta0 - 360 * Sign(delta0) ELSE delta0
    IN  currentRotation + delta

\* finalRotation of rotate(newHeading) when rotation._value || 0 is
\* currentRotation.
FinalRotation(currentRotation, newHeading) ==
    LET delta0 == newHeading - currentRotation
        delta  == IF Abs(delta0) > 180 THEN delta0 - 360 * Sign(delta0) ELSE delta0
    IN  JsRem(currentRotation + delta, 360)

\* rotate(newHeading): Animated.timing(rotation, {toValue: finalRotation}).start()
\* replaces any running animation and starts from the current value.
rotate(newHeading) ==
    LET currentRotation == OrZero(rotation)
        finalRotation   == FinalRotation(currentRotation, newHeading)
    IN  /\ timing' = [called |-> TRUE, heading |-> newHeading, fromValue |-> currentRotation,
                      toValue |-> finalRotation]
        /\ animating' = TRUE
        /\ UNCHANGED <<coordinate, currentCoordinate, rotation, rotationDeg,
                       lastCoordinateWrite>>
        /\ UNCHANGED <<placeVars, editVars, routeVars>>

\* The values a linear animation passes strictly between a and b.
Between(a, b) ==
    {v \in DegreeGrid(MaxHeadingTicks + MaxInitialTicks) :
        \/ a < v /\ v < b
        \/ b < v /\ v < a}

\* One frame of the running animation: the value moves toward toValue and the
\* listener copies it into rotationDeg.
AnimationFrame ==
    /\ animating
    /\ \E v \in Between(rotation, timing.toValue) :
          /\ rotation' = v
          /\ rotationDeg' = v
    /\ UNCHANGED <<coordinate, currentCoordinate, timing, animating,
                   lastCoordinateWrite>>
    /\ UNCHANGED <<placeVars, editVars, routeVars>>

\* The last frame: the value is toValue and the animation ends.
AnimationEnd ==
    /\ animating
    /\ rotation' = timing.toValue
    /\ rotationDeg' = timing.toValue
    /\ animating' = FALSE
    /\ UNCHANGED <<coordinate, currentCoordinate, timing, lastCoordinateWrite>>
    /\ UNCHANGED <<placeVars, editVars, routeVars>>

TrackingMarkerNext ==
    \/ \E c \in Coordinates : TrackingMarkerRender(c)
    \/ \E c \in Coordinates : move(c.latitude, c.longitude)
    \/ \E h \in Headings : rotate(h)
    \/ AnimationFrame
    \/ AnimationEnd

\* ========================================================================
\* PlaceMapView
\* ========================================================================

ZoomValues == -MaxZoom..MaxZoom

\* calculateZoomLevel of PlaceMapView
calculateZoomLevel(zoom) == 15 - zoom

\* Before the first render: props not yet given, the map at its default camera.
PlaceMapViewInit ==
    /\ pmMounted = FALSE
    /\ pmPlace = [latitude |-> 0, longitude |-> 0]
    /\ pmZoom = 1
    /\ pmCamera = [zoomLevel |-> 0, centerCoordinate |-> <<0, 0>>]
    /\ pmLastRender = "none"

\* <Camera zoomLevel={zoomLevel} centerCoordinate={[longitude, latitude]} />:
\* the camera stop the props describe.
CameraProps(p, zoom) ==
    [zoomLevel |-> calculateZoomLevel(zoom),
     centerCoordinate |-> <<p.longitude, p.latitude>>]

\* The effect's cameraRef.current.setCamera({...}): the stop it commands.
SetCameraStop(p) ==
    [zoomLevel |-> 16,
     centerCoordinate |-> <<p.longitude, p.latitude>>]

\* One render of PlaceMapView with the given place coordinates and zoom, and
\* the effects that follow it.  The Camera child applies its props on mount
\* and when they change; then the effect of the component runs on mount and
\* when latitude or longitude changed (cameraRef.current is attached by then)
\* and commands its own stop.
PlaceMapViewRender(p, zoom) ==
    LET first     == ~pmMounted
        moved     == p.latitude # pmPlace.latitude
                       \/ p.longitude # pmPlace.longitude
        propsStop == IF first \/ CameraProps(p, zoom) # CameraProps(pmPlace, pmZoom)
                        THEN CameraProps(p, zoom)
                        ELSE pmCamera
    IN  /\ pmMounted' = TRUE
        /\ pmPlace' = p
        /\ pmZoom' = zoom
        /\ pmCamera' = IF first \/ moved THEN SetCameraStop(p) ELSE propsStop
        /\ pmLastRender' = IF first THEN "mount"
                            ELSE IF moved THEN "coordinates" ELSE "other"
        /\ UNCHANGED <<markerVars, editVars, routeVars>>

PlaceMapViewNext ==
    \E p \in Coordinates, zoom \in ZoomValues : PlaceMapViewRender(p, zoom)

\* ========================================================================
\* EditLocationCoordScreen
\* ========================================================================

EditLongitudes == {0, 1}

MapPoints == [latitude : 0..MaxEditLat, longitude : EditLongitudes]

\* The messages of the errors place.update may reject with.
ErrorMessages == {"network error", "invalid location"}

\* getCoordinates(place): [latitude, longitude]
getCoordinates(p) == <<p.latitude, p.longitude>>

\* new Point(lat, lng)
Point(lat, lng) == [latitude |-> lat, longitude |-> lng]

\* The camera centre a centerCoordinate prop [longitude, latitude] asks for.
CameraFromProp(c) == [latitude |-> c[2], longitude |-> c[1]]

\* geometry.coordinates of a map-idle feature: the map centre as a GeoJSON
\* position, [longitude, latitude].
GeometryCoordinates(m) == <<m.longitude, m.latitude>>

\* const [latitude, longitude] = getCoordinates(place);
\* useState([longitude, latitude])
InitialCenterCoordinate(p) ==
    LET latitude  == getCoordinates(p)[1]
        longitude == getCoordinates(p)[2]
    IN  <<longitude, latitude>>

NoSettle == [update |-> "none", message |-> "", handleSave |-> "none"]

NoReset == [pressed |-> FALSE, interacted |-> FALSE, released |-> FALSE]

\* State after the first render: the Camera sits at its centerCoordinate prop.
EditLocationCoordScreenInit ==
    /\ place \in [latitude : 0..MaxEditLat, longitude : EditLongitudes,
                  isNew : BOOLEAN]
    /\ centerCoordinate = InitialCenterCoordinate(place)
    /\ isPanning = FALSE
    /\ mapCenter = CameraFromProp(centerCoordinate)
    /\ cameraTarget = <<>>
    /\ touching = FALSE
    /\ resetTimers = 0
    /\ pendingUpdates = 0
    /\ savedPoint = <<>>
    /\ locationStateUpdated = FALSE
    /\ navigated = FALSE
    /\ toastMessage = ""
    /\ lastSettle = NoSettle
    /\ lastIdleCenter = <<>>
    /\ sinceReset = NoReset

EditLocationCoordScreenAtRest ==
    /\ place = [latitude |-> 0, longitude |-> 0, isNew |-> FALSE]
    /\ centerCoordinate = <<0, 0>>
    /\ isPanning = FALSE
    /\ mapCenter = [latitude |-> 0, longitude |-> 0]
    /\ cameraTarget = <<>>
    /\ touching = FALSE
    /\ resetTimers = 0
    /\ pendingUpdates = 0
    /\ savedPoint = <<>>
    /\ locationStateUpdated = FALSE
    /\ navigated = FALSE
    /\ toastMessage = ""
    /\ lastSettle = NoSettle
    /\ lastIdleCenter = <<>>
    /\ sinceReset = NoReset

\* <Camera centerCoordinate={centerCoordinate} />: when the prop changes the
\* camera is sent to it; a prop equal to where the resting camera already is
\* moves nothing.
CameraAfterProp(newProp) ==
    IF newProp = centerCoordinate
       THEN cameraTarget
       ELSE IF cameraTarget = <<>> /\ CameraFromProp(newProp) = mapCenter
               THEN <<>>
               ELSE <<CameraFromProp(newProp)>>

\* handleRegionChange(feature): the value of isPanning after it.
handleRegionChange(isUserInteraction) ==
    IF isUserInteraction THEN TRUE ELSE isPanning

\* onTouchStart: handleTouchStart.  The gesture stops a running camera
\* animation.
handleTouchStart ==
    /\ ~navigated
    /\ ~touching
    /\ touching' = TRUE
    /\ isPanning' = TRUE
    /\ cameraTarget' = <<>>
    /\ sinceReset' = [sinceReset EXCEPT !.interacted = TRUE]
    /\ UNCHANGED <<place, centerCoordinate, mapCenter, resetTimers,
                   pendingUpdates, savedPoint, locationStateUpdated, navigated,
                   toastMessage, lastSettle, lastIdleCenter>>
    /\ UNCHANGED <<markerVars, placeVars, routeVars>>

\* The finger drags the map to centre c: onCameraChanged fires with
\* properties.isUserInteraction true.
UserPan(c) ==
    /\ ~navigated
    /\ touching
    /\ c # mapCenter
    /\ mapCenter' = c
    /\ cameraTarget' = <<>>
    /\ isPanning' = handleRegionChange(TRUE)
    /\ sinceReset' = [sinceReset EXCEPT !.interacted = TRUE]
    /\ UNCHANGED <<place, centerCoordinate, touching, resetTimers,
                   pendingUpdates, savedPoint, locationStateUpdated, navigated,
                   toastMessage, lastSettle, lastIdleCenter>>
    /\ UNCHANGED <<markerVars, placeVars, routeVars>>

\* onTouchEnd: handleTouchEnd
handleTouchEnd ==
    /\ ~navigated
    /\ touching
    /\ touching' = FALSE
    /\ isPanning' = FALSE
    /\ sinceReset' = [sinceReset EXCEPT !.interacted = TRUE, !.released = TRUE]
    /\ UNCHANGED <<place, centerCoordinate, mapCenter, cameraTarget, resetTimers,
                   pendingUpdates, savedPoint, locationStateUpdated, navigated,
                   toastMessage, lastSettle, lastIdleCenter>>
    /\ UNCHANGED <<markerVars, placeVars, routeVars>>

\* A frame of a camera animation started by setCamera or by the Camera prop:
\* the camera is somewhere on its way (or arrives, and the animation ends);
\* onCameraChanged fires with properties.isUserInteraction false.
CameraAnimationFrame(c) ==
    /\ cameraTarget # <<>>
    /\ mapCenter' = c
    /\ cameraTarget' = IF c = cameraTarget[1] THEN <<>> ELSE cameraTarget
    /\ isPanning' = IF navigated THEN isPanning ELSE handleRegionChange(FALSE)
    /\ UNCHANGED <<place, centerCoordinate, touching, resetTimers,
                   pendingUpdates, savedPoint, locationStateUpdated, navigated,
                   toastMessage, lastSettle, lastIdleCenter, sinceReset>>
    /\ UNCHANGED <<markerVars, placeVars, routeVars>>

\* onMapIdle: handleRegionChangeComplete(feature), fired when the camera has
\* stopped; the feature carries the map centre as geometry, or no geometry.
handleRegionChangeComplete(hasGeometry) ==
    /\ ~navigated
    /\ cameraTarget = <<>>
    /\ isPanning' = FALSE
    /\ LET coordinates == GeometryCoordinates(mapCenter)
       IN  IF hasGeometry
              THEN /\ centerCoordinate' = coordinates
                   /\ cameraTarget' = CameraAfterProp(coordinates)
                   /\ lastIdleCenter' = <<mapCenter>>
              ELSE UNCHANGED <<centerCoordinate, cameraTarget, lastIdleCenter>>
    /\ sinceReset' = [sinceReset EXCEPT !.released = TRUE]
    /\ UNCHANGED <<place, mapCenter, touching, resetTimers, pendingUpdates,
                   savedPoint, locationStateUpdated, navigated, toastMessage,
                   lastSettle>>
    /\ UNCHANGED <<markerVars, placeVars, routeVars>>

\* handleReset: cameraRef.current is attached once the screen has rendered.
handleReset ==
    /\ ~navigated
    /\ resetTimers < MaxTimers
    /\ LET lat == getCoordinates(place)[1]
           lng == getCoordinates(place)[2]
       IN  cameraTarget' = <<CameraFromProp(<<lng, lat>>)>>
    /\ isPanning' = TRUE
    /\ resetTimers' = resetTimers + 1
    /\ sinceReset' = [pressed |-> TRUE, interacted |-> FALSE, released |-> FALSE]
    /\ UNCHANGED <<place, centerCoordinate, mapCenter, touching, pendingUpdates,
                   savedPoint, locationStateUpdated, navigated, toastMessage,
                   lastSettle, lastIdleCenter>>
    /\ UNCHANGED <<markerVars, placeVars, routeVars>>

\* The setTimeout callback of handleReset, 500 ms after the press.  State
\* setters of a screen that has been navigated away from do nothing.
ResetTimerFires ==
    /\ resetTimers > 0
    /\ resetTimers' = resetTimers - 1
    /\ LET lat == getCoordinates(place)[1]
           lng == getCoordinates(place)[2]
       IN  IF navigated
              THEN UNCHANGED <<isPanning, centerCoordinate, cameraTarget>>
              ELSE /\ isPanning' = FALSE
                   /\ centerCoordinate' = <<lng, lat>>
                   /\ cameraTarget' = CameraAfterProp(<<lng, lat>>)
    /\ UNCHANGED <<place, mapCenter, touching, pendingUpdates, savedPoint,
                   locationStateUpdated, navigated, toastMessage, lastSettle,
                   lastIdleCenter, sinceReset>>
    /\ UNCHANGED <<markerVars, placeVars, routeVars>>

\* A variant of the Point of handleSave that destructures centerCoordinate
\* as [lat, lng].
SavePointSwapped(center) ==
    LET lat == center[1]
        lng == center[2]
    IN  Point(lat, lng)

\* const [lng, lat] = centerCoordinate; new Point(lat, lng)
SavePoint(center) ==
    LET lng == center[1]
        lat == center[2]
    IN  Point(lat, lng)

\* handleSave up to its first await.  A new place gets the Point as its
\* location attribute and handleRedirect calls navigation.reset; for an
\* existing place, place.update({location: Point}) is started.  savedPoint
\* is the Point of either.
handleSave ==
    /\ ~navigated
    /\ place.isNew \/ pendingUpdates < MaxPendingUpdates
    /\ savedPoint' = <<SavePoint(centerCoordinate)>>
    /\ IF place.isNew
          THEN /\ navigated' = TRUE
               /\ UNCHANGED pendingUpdates
          ELSE /\ pendingUpdates' = pendingUpdates + 1
               /\ UNCHANGED navigated
    /\ UNCHANGED <<place, centerCoordinate, isPanning, mapCenter, cameraTarget,
                   touching, resetTimers, locationStateUpdated, toastMessage,
                   lastSettle, lastIdleCenter, sinceReset>>
    /\ UNCHANGED <<markerVars, placeVars, routeVars>>

UpdateOutcomes ==
    {[kind |-> "resolved", message |-> ""]}
        \cup {[kind |-> "rejected", message |-> m] : m \in ErrorMessages}

\* runWithLoading(promise) settles as the promise it is given does.
runWithLoading(outcome) == outcome

\* A variant of the rest of handleSave whose try has no catch: a rejection
\* leaves handleSave rejected and shows nothing.
UpdateSettlesUncaught(outcome) ==
    /\ pendingUpdates > 0
    /\ pendingUpdates' = pendingUpdates - 1
    /\ LET awaited == runWithLoading(outcome)
       IN  IF awaited.kind = "resolved"
              THEN /\ locationStateUpdated' = TRUE
                   /\ navigated' = TRUE
                   /\ UNCHANGED toastMessage
                   /\ lastSettle' = [update |-> "resolved", message |-> "",
                                     handleSave |-> "fulfilled"]
              ELSE /\ UNCHANGED <<locationStateUpdated, navigated, toastMessage>>
                   /\ lastSettle' = [update |-> "rejected",
                                     message |-> awaited.message,
                                     handleSave |-> "rejected"]
    /\ UNCHANGED <<place, centerCoordinate, isPanning, mapCenter, cameraTarget,
                   touching, resetTimers, savedPoint, lastIdleCenter, sinceReset>>
    /\ UNCHANGED <<markerVars, placeVars, routeVars>>

\* An unsettled place.update settles and handleSave runs on from its
\* await: updateLocationState and handleRedirect after a success, the catch
\* block with toast.error(error.message) after a rejection.
UpdateSettles(outcome) ==
    /\ pendingUpdates > 0
    /\ pendingUpdates' = pendingUpdates - 1
    /\ LET awaited == runWithLoading(outcome)
       IN  IF awaited.kind = "resolved"
              THEN /\ locationStateUpdated' = TRUE
                   /\ navigated' = TRUE
                   /\ UNCHANGED toastMessage
                   /\ lastSettle' = [update |-> "resolved", message |-> "",
                                     handleSave |-> "fulfilled"]
              ELSE /\ toastMessage' = awaited.message
                   /\ UNCHANGED <<locationStateUpdated, navigated>>
                   /\ lastSettle' = [update |-> "rejected",
                                     message |-> awaited.message,
                                     handleSave |-> "fulfilled"]
    /\ UNCHANGED <<place, centerCoordinate, isPanning, mapCenter, cameraTarget,
                   touching, resetTimers, savedPoint, lastIdleCenter, sinceReset>>
    /\ UNCHANGED <<markerVars, placeVars, routeVars>>

EditLocationCoordScreenNext ==
    \/ handleTouchStart
    \/ \E c \in MapPoints : UserPan(c)
    \/ handleTouchEnd
    \/ \E c \in MapPoints : CameraAnimationFrame(c)
    \/ \E hasGeometry \in BOOLEAN : handleRegionChangeComplete(hasGeometry)
    \/ handleReset
    \/ ResetTimerFires
    \/ handleSave
    \/ \E outcome \in UpdateOutcomes : UpdateSettles(outcome)

\* ========================================================================
\* LiveOrderRoute (rendered with focusCurrentDestination at its default, false)
\* ========================================================================

\* The places an order refers to; 0 stands for no place (null, undefined).
Places == {1, 2}

NoPlace == 0

\* A place on the equator: its latitude is 0, its longitude is not.
EquatorPlace == 3

\* getCoordinates(place): [latitude, longitude]; [0, 0] for no place.
PlaceCoordinates(p) ==
    IF p = NoPlace THEN <<0, 0>>
    ELSE IF p = EquatorPlace THEN <<0, 7>>
    ELSE <<p, 10 - p>>

\* getPlaceCoords(place)
getPlaceCoords(p) ==
    LET latitude  == PlaceCoordinates(p)[1]
        longitude == PlaceCoordinates(p)[2]
    IN  [latitude |-> latitude, longitude |-> longitude]

\* The waypoint lists of the orders rendered: the first n stops of a round
\* that visits place 2, place 1, place 2, ...
WaypointLists ==
    {[i \in 1..n |-> IF i % 2 = 1 THEN 2 ELSE 1] : n \in 0..MaxWaypoints}

\* The orders rendered: picked up at place 1, on the equator or without
\* pickup, dropped off at place 2 or without dropoff, with any waypoints.
Orders == [pickup : {NoPlace, 1, EquatorPlace}, dropoff : {NoPlace, 2},
           waypoints : WaypointLists]

\* !pickup && waypoints.length > 0 ? waypoints[0] : pickup
startWaypoint(o) ==
    IF o.pickup = NoPlace /\ Len(o.waypoints) > 0
       THEN o.waypoints[1]
       ELSE o.pickup

\* !dropoff && waypoints.length > 0 && last(waypoints) !== first(waypoints)
\*     ? last(waypoints) : dropoff
\* last and first are the same object exactly when the list has one element.
endWaypoint(o) ==
    IF o.dropoff = NoPlace /\ Len(o.waypoints) > 0 /\ Len(o.waypoints) # 1
       THEN o.waypoints[Len(o.waypoints)]
       ELSE o.dropoff

origin(o) == getPlaceCoords(startWaypoint(o))

destination(o) == getPlaceCoords(endWaypoint(o))

\* waypoints.slice(1, -1): the places of the middle waypoints
middleWaypoints(o) == SubSeq(o.waypoints, 2, Len(o.waypoints) - 1)

\* The dependency list of the fetch effect.
FetchDeps(o) ==
    <<origin(o).latitude, origin(o).longitude,
      destination(o).latitude, destination(o).longitude>>

\* origin && destination && origin.latitude && destination.latitude
HasCoordinates(o) == origin(o).latitude # 0 /\ destination(o).latitude # 0

\* The request fetchDirections(origin, destination, middleWaypoints) sends:
\* the coordinates of its URL.
DirectionsRequest(o) ==
    [origin |-> origin(o), destination |-> destination(o),
     waypoints |-> [i \in 1..Len(middleWaypoints(o)) |->
                       getPlaceCoords(middleWaypoints(o)[i])]]

NoFetch == [kind |-> "none", settled |-> "none", value |-> <<>>, firstRoute |-> <<>>]

\* No request has been issued yet.
NoRequest == [issued |-> FALSE, inFlight |-> FALSE, geometry |-> <<>>]

\* Before the first render.
LiveOrderRouteInit ==
    /\ lorMounted = FALSE
    /\ order = [pickup |-> NoPlace, dropoff |-> NoPlace, waypoints |-> <<>>]
    /\ requests = <<>>
    /\ routeGeometry = <<>>
    /\ fitBoundsCall = <<>>
    /\ lastFetch = NoFetch
    /\ latest = NoRequest

\* One render of LiveOrderRoute with order o and the effects that follow it.
\* The fetch effect runs on mount and when one of its dependencies changed;
\* the fit effect finds routeGeometry unchanged (null on mount).
LiveOrderRouteRender(o) ==
    LET runs == ~lorMounted \/ FetchDeps(o) # FetchDeps(order)
    IN  /\ lorMounted' = TRUE
        /\ order' = o
        /\ IF runs /\ HasCoordinates(o)
              THEN /\ Len(requests) < MaxRequests
                   /\ requests' = Append(requests, DirectionsRequest(o))
                   /\ latest' = [issued |-> TRUE, inFlight |-> TRUE,
                                  geometry |-> <<>>]
              ELSE UNCHANGED <<requests, latest>>
        /\ fitBoundsCall' = <<>>
        /\ lastFetch' = NoFetch
        /\ UNCHANGED routeGeometry
        /\ UNCHANGED <<markerVars, placeVars, editVars>>

\* A GeoJSON position, [longitude, latitude].
Position(c) == <<c.longitude, c.latitude>>

\* Positions a route may pass between its stops.
ViaPoints == {<<7, 3>>}

\* The line from the origin of request r through its waypoints and the
\* positions via to its destination.
RouteLine(r, via) ==
    [coordinates |-> <<Position(r.origin)>>
                       \o [i \in 1..Len(r.waypoints) |-> Position(r.waypoints[i])]
                       \o via \o <<Position(r.destination)>>]

\* The geometries the directions service may return for request r: such a
\* line, possibly by one more point; or a line without coordinates.
RouteGeometries(r) ==
    {[coordinates |-> <<>>]} \cup
    {RouteLine(r, via) : via \in {<<>>} \cup {<<v>> : v \in ViaPoints}}

\* What may come back for request r: fetch rejects; a body that is not JSON;
\* the JSON value null; an object without routes; an object with a list of
\* routes (empty, one route, or a route and the direct line as alternative).
Responses(r) ==
    {[kind |-> k, routes |-> <<>>] :
        k \in {"fetchRejects", "invalidJson", "nullBody", "noRoutes", "emptyRoutes"}}
    \cup {[kind |-> "routes", routes |-> <<[geometry |-> g]>>] :
             g \in RouteGeometries(r)}
    \cup {[kind |-> "routes",
            routes |-> <<[geometry |-> g], [geometry |-> RouteLine(r, <<>>)]>>] :
             g \in RouteGeometries(r)}

FailedKinds == {"fetchRejects", "invalidJson", "nullBody", "noRoutes", "emptyRoutes"}

\* A variant of fetchDirections without its try/catch: what throws inside
\* rejects the promise.
fetchDirectionsNoCatch(resp) ==
    IF resp.kind \in {"fetchRejects", "invalidJson", "nullBody"}
       THEN [settled |-> "rejected", value |-> <<>>]
       ELSE IF resp.kind = "routes" /\ Len(resp.routes) > 0
               THEN [settled |-> "fulfilled", value |-> <<resp.routes[1].geometry>>]
               ELSE [settled |-> "fulfilled", value |-> <<>>]

\* fetchDirections, from the response on: how its promise settles and with
\* what (<<>> for null).  A rejected fetch, a rejected response.json() and
\* the TypeError of reading routes of null are caught.
fetchDirections(resp) ==
    IF resp.kind \in {"fetchRejects", "invalidJson", "nullBody"}
       THEN [settled |-> "fulfilled", value |-> <<>>]
       ELSE IF resp.kind = "routes" /\ Len(resp.routes) > 0
               THEN [settled |-> "fulfilled", value |-> <<resp.routes[1].geometry>>]
               ELSE [settled |-> "fulfilled", value |-> <<>>]

Range(seq) == {seq[i] : i \in 1..Len(seq)}

\* Math.max(...list), Math.min(...list) of a list that is not empty
MathMax(list) == CHOOSE x \in Range(list) : \A y \in Range(list) : y <= x

MathMin(list) == CHOOSE x \in Range(list) : \A y \in Range(list) : x <= y

\* A variant of the bounds that reads the latitudes where the longitudes are.
BoundsSwappedAxes(coordinates) ==
    LET lngs == [i \in 1..Len(coordinates) |-> coordinates[i][2]]
        lats == [i \in 1..Len(coordinates) |-> coordinates[i][1]]
    IN  [ne |-> <<MathMax(lngs), MathMax(lats)>>,
         sw |-> <<MathMin(lngs), MathMin(lats)>>]

\* The bounds of the fit effect: c[0] is a longitude, c[1] a latitude.
Bounds(coordinates) ==
    LET lngs == [i \in 1..Len(coordinates) |-> coordinates[i][1]]
        lats == [i \in 1..Len(coordinates) |-> coordinates[i][2]]
    IN  [ne |-> <<MathMax(lngs), MathMax(lats)>>,
         sw |-> <<MathMin(lngs), MathMin(lats)>>]

\* The fit effect after routeGeometry became geometry (<<>> for null):
\* the fitBounds call it makes, if any.  cameraRef.current is attached once
\* the component has rendered.
FitEffect(geometry) ==
    IF geometry # <<>> /\ Len(geometry[1].coordinates) > 0
       THEN <<Bounds(geometry[1].coordinates)>>
       ELSE <<>>

RemoveAt(seq, i) ==
    [j \in 1..(Len(seq) - 1) |-> IF j < i THEN seq[j] ELSE seq[j + 1]]

\* The i-th request in flight completes with resp: fetchDirections settles,
\* its then-callback sets routeGeometry when the geometry is truthy, and the
\* fit effect runs after the render that follows a new routeGeometry.
DirectionsResponse(i, resp) ==
    LET result == fetchDirections(resp)
        sets   == result.settled = "fulfilled" /\ result.value # <<>>
    IN  /\ requests' = RemoveAt(requests, i)
        /\ latest' = IF latest.inFlight /\ i = Len(requests)
                         THEN [issued |-> TRUE, inFlight |-> FALSE,
                               geometry |-> result.value]
                         ELSE latest
        /\ lastFetch' = [kind |-> resp.kind, settled |-> result.settled,
                         value |-> result.value,
                         firstRoute |-> IF Len(resp.routes) > 0
                                           THEN <<resp.routes[1].geometry>>
                                           ELSE <<>>]
        /\ routeGeometry' = IF sets THEN result.value ELSE routeGeometry
        /\ fitBoundsCall' = IF sets THEN FitEffect(result.value) ELSE <<>>
        /\ UNCHANGED <<lorMounted, order>>
        /\ UNCHANGED <<markerVars, placeVars, editVars>>

LiveOrderRouteNext ==
    \/ \E o \in Orders : LiveOrderRouteRender(o)
    \/ \E i \in 1..Len(requests) :
          \E resp \in Responses(requests[i]) : DirectionsResponse(i, resp)

\* ========================================================================
\* Specifications: one per component, the other components at rest
\* ========================================================================

TrackingMarkerAtRest ==
    /\ coordinate = [latitude |-> 0, longitude |-> 0]
    /\ currentCoordinate = [latitude |-> 0, longitude |-> 0]
    /\ rotation = 0
    /\ rotationDeg = 0
    /\ timing = NoTiming
    /\ animating = FALSE
    /\ lastCoordinateWrite = [by |-> "mount", latitude |-> 0, longitude |-> 0]

InitTrackingMarker ==
    /\ TrackingMarkerInit
    /\ PlaceMapViewInit /\ EditLocationCoordScreenAtRest /\ LiveOrderRouteInit

SpecTrackingMarker == InitTrackingMarker /\ [][TrackingMarkerNext]_vars

InitPlaceMapView ==
    /\ PlaceMapViewInit
    /\ TrackingMarkerAtRest /\ EditLocationCoordScreenAtRest /\ LiveOrderRouteInit

SpecPlaceMapView == InitPlaceMapView /\ [][PlaceMapViewNext]_vars

InitEditLocationCoordScreen ==
    /\ EditLocationCoordScreenInit
    /\ TrackingMarkerAtRest /\ PlaceMapViewInit /\ LiveOrderRouteInit

SpecEditLocationCoordScreen ==
    InitEditLocationCoordScreen /\ [][EditLocationCoordScreenNext]_vars

InitLiveOrderRoute ==
    /\ LiveOrderRouteInit
    /\ TrackingMarkerAtRest /\ PlaceMapViewInit /\ EditLocationCoordScreenAtRest

SpecLiveOrderRoute == InitLiveOrderRoute /\ [][LiveOrderRouteNext]_vars

\* ------------------------------------------------------------------------
\* Claims about TrackingMarker
\* ------------------------------------------------------------------------

\* C1: for a current rotation value strictly between -360 and 360 and a new
\* heading in 0..359, the target handed to the animation is at most half a
\* turn away from the current value.
C1_ShorterWayRound ==
    (/\ timing.called
     /\ -360 < timing.fromValue /\ timing.fromValue < 360
     /\ timing.heading \in 0..359)
    => Abs(timing.toValue - timing.fromValue) <= 180

\* C2: the target of the latest rotate(h) is congruent to h modulo 360 and
\* lies strictly between -360 and 360, whatever the rotation value was.
C2_TargetCongruentAndBounded ==
    timing.called =>
        /\ (timing.toValue - timing.heading) % 360 = 0
        /\ -360 < timing.toValue /\ timing.toValue < 360

\* A rotate call whose heading is a full turn or more, made from a negative
\* current value, with its animation finished.
C2_Witness ==
    /\ timing.called
    /\ timing.heading >= 360
    /\ timing.fromValue < 0
    /\ ~animating
    /\ rotation = timing.toValue

\* C7: currentCoordinate is what the latest writer (move, or a changed
\* coordinate prop) gave, renders with an unchanged prop included, and a
\* move step leaves the rotation alone.
C7_CoordinateFollowsLastWriter ==
    /\ [](currentCoordinate = [latitude |-> lastCoordinateWrite.latitude,
                               longitude |-> lastCoordinateWrite.longitude])
    /\ [][(lastCoordinateWrite' # lastCoordinateWrite
             /\ lastCoordinateWrite'.by = "move")
           => UNCHANGED <<rotation, rotationDeg, timing, animating>>]_vars

\* A position set by move that differs from the coordinate prop, while a
\* rotation animation is running.
C7_Witness ==
    /\ lastCoordinateWrite.by = "move"
    /\ currentCoordinate # CoordinateState(coordinate)
    /\ animating

\* ------------------------------------------------------------------------
\* Claims about PlaceMapView
\* ------------------------------------------------------------------------

\* C5: after mount and after every change of the place coordinates the
\* camera zoom level in effect is calculateZoomLevel(zoom) = 15 - zoom, and
\* that is a Mapbox zoom level, between 0 and 22.
C5_ZoomLevelInEffect ==
    pmLastRender \in {"mount", "coordinates"} =>
        /\ pmCamera.zoomLevel = calculateZoomLevel(pmZoom)
        /\ pmCamera.zoomLevel = 15 - pmZoom
        /\ 0 <= calculateZoomLevel(pmZoom) /\ calculateZoomLevel(pmZoom) <= 22

\* ------------------------------------------------------------------------
\* Claims about EditLocationCoordScreen
\* ------------------------------------------------------------------------

\* The coordinate the user picked: the map centre of the latest idle event
\* that carried geometry, or the place's own coordinates.
PickedPoint ==
    IF lastIdleCenter = <<>>
       THEN [latitude |-> place.latitude, longitude |-> place.longitude]
       ELSE [latitude |-> lastIdleCenter[1].latitude,
             longitude |-> lastIdleCenter[1].longitude]

\* A step of handleSave.
SaveStep ==
    \/ pendingUpdates' > pendingUpdates
    \/ place.isNew /\ navigated' /\ ~navigated

\* C6: after touch, camera-changed and map-idle events (Reset not pressed),
\* handleSave builds its Point from the picked coordinate, latitude as
\* latitude and longitude as longitude.
C6_SavePersistsPicked ==
    [][(SaveStep /\ ~sinceReset.pressed) =>
          savedPoint' = <<PickedPoint>>]_vars

\* A Point saved from an idle event's coordinate that differs from the
\* place's own, with latitude different from longitude.
C6_Witness ==
    /\ savedPoint # <<>>
    /\ lastIdleCenter # <<>>
    /\ ~sinceReset.pressed
    /\ savedPoint[1].latitude # savedPoint[1].longitude
    /\ savedPoint[1] # [latitude |-> place.latitude, longitude |-> place.longitude]
    /\ savedPoint[1] = PickedPoint

\* Where Reset sends the screen: [lng, lat] of the place.
ResetCoordinate == <<getCoordinates(place)[2], getCoordinates(place)[1]>>

\* C8: after Reset, once every timer has fired and the map rests with no
\* user interaction since the press, centerCoordinate is [lng, lat] of the
\* place and isPanning is false; and while a timer is pending and no
\* touch-end or map-idle event has arrived since the press, isPanning is
\* true.
C8_ResetReturnsToPlace ==
    /\ (/\ sinceReset.pressed /\ ~sinceReset.interacted
         /\ resetTimers = 0 /\ cameraTarget = <<>> /\ ~navigated)
        => (centerCoordinate = ResetCoordinate /\ ~isPanning)
    /\ (/\ sinceReset.pressed /\ ~sinceReset.released
         /\ resetTimers > 0 /\ ~navigated)
        => isPanning

\* C9: for an existing place, a rejected place.update leads to no
\* updateLocationState and no navigation.reset, its message is shown by
\* toast.error and handleSave is fulfilled; the two calls happen only in
\* the step in which a place.update has resolved.
C9_RejectedUpdate ==
    [][/\ (pendingUpdates' < pendingUpdates
              /\ lastSettle'.update = "rejected")
           => /\ navigated' = navigated
              /\ locationStateUpdated' = locationStateUpdated
              /\ toastMessage' = lastSettle'.message
              /\ lastSettle'.handleSave = "fulfilled"
       /\ (~place.isNew /\ (navigated' # navigated
                               \/ locationStateUpdated' # locationStateUpdated))
           => /\ pendingUpdates' < pendingUpdates
              /\ lastSettle'.update = "resolved"]_vars

\* A place.update of an existing place has rejected: its message is on
\* screen and the screen is still there.
C9_Witness ==
    /\ ~place.isNew
    /\ lastSettle.update = "rejected"
    /\ lastSettle.handleSave = "fulfilled"
    /\ toastMessage = "network error"
    /\ ~navigated
    /\ ~locationStateUpdated

\* ------------------------------------------------------------------------
\* Claims about LiveOrderRoute
\* ------------------------------------------------------------------------

\* A step in which a directions request completes.
ResponseStep == Len(requests') < Len(requests)

\* C3: whatever comes back, fetchDirections is fulfilled, never rejected; a
\* rejected fetch, a body that is not JSON and a response without routes
\* make it resolve to null and leave routeGeometry as it was; a response
\* with at least one route sets routeGeometry to the first route's geometry.
C3_FailedRequestKeepsRoute ==
    [][ResponseStep =>
          /\ lastFetch'.settled = "fulfilled"
          /\ lastFetch'.kind \in FailedKinds =>
                (lastFetch'.value = <<>> /\ routeGeometry' = routeGeometry)
          /\ lastFetch'.kind \notin FailedKinds =>
                (/\ lastFetch'.firstRoute # <<>>
                 /\ lastFetch'.value = lastFetch'.firstRoute
                 /\ routeGeometry' = lastFetch'.firstRoute)
          /\ routeGeometry' # routeGeometry => lastFetch'.kind = "routes"]_vars

\* A rejected fetch that left a route on display: routeGeometry still holds
\* the geometry of an earlier response.
C3_Witness ==
    /\ lastFetch.kind = "fetchRejects"
    /\ lastFetch.settled = "fulfilled"
    /\ routeGeometry # <<>>
    /\ Len(routeGeometry[1].coordinates) = 3

\* C4: a fitBounds call is made only for a routeGeometry with at least one
\* coordinate, and its bounds are the bounding box of the route: every
\* coordinate lies between sw and ne, each side of the box is touched by
\* some coordinate, and sw <= ne componentwise.
C4_FitBoundsIsBoundingBox ==
    fitBoundsCall # <<>> =>
        /\ routeGeometry # <<>>
        /\ Len(routeGeometry[1].coordinates) > 0
        /\ LET cs == routeGeometry[1].coordinates
               ne == fitBoundsCall[1].ne
               sw == fitBoundsCall[1].sw
           IN  /\ \A i \in 1..Len(cs) :
                     /\ sw[1] <= cs[i][1] /\ cs[i][1] <= ne[1]
                     /\ sw[2] <= cs[i][2] /\ cs[i][2] <= ne[2]
               /\ \E i \in 1..Len(cs) : cs[i][1] = ne[1]
               /\ \E i \in 1..Len(cs) : cs[i][2] = ne[2]
               /\ \E i \in 1..Len(cs) : cs[i][1] = sw[1]
               /\ \E i \in 1..Len(cs) : cs[i][2] = sw[2]
               /\ sw[1] <= ne[1] /\ sw[2] <= ne[2]

\* A fitBounds call for a route of three coordinates whose box has corners
\* that are not on the route.
C4_Witness ==
    /\ fitBoundsCall # <<>>
    /\ routeGeometry # <<>>
    /\ Len(routeGeometry[1].coordinates) = 3
    /\ \A i \in 1..3 :
          /\ routeGeometry[1].coordinates[i] # fitBoundsCall[1].ne
          /\ routeGeometry[1].coordinates[i] # fitBoundsCall[1].sw

\* The waypoints of order o that are neither its route start nor its route
\* end, in order: the start is the first waypoint when there is no pickup,
\* the end the last waypoint when there is no dropoff and the list has more
\* than one element.
IntermediateStops(o) ==
    LET n    == Len(o.waypoints)
        keep == {i \in 1..n :
                    /\ ~(o.pickup = NoPlace /\ i = 1)
                    /\ ~(o.dropoff = NoPlace /\ n > 1 /\ i = n)}
        Pick[i \in 0..n] ==
            IF i = 0 THEN <<>>
            ELSE IF i \in keep THEN Append(Pick[i - 1], o.waypoints[i])
                 ELSE Pick[i - 1]
    IN  Pick[n]

\* C10: the middle waypoints sent to the directions request and drawn as
\* markers are exactly the order's waypoints other than the route start and
\* the route end.
C10_EveryIntermediateStop ==
    lorMounted => middleWaypoints(order) = IntermediateStops(order)

\* A step that renders LiveOrderRoute: no request in flight completes in it.
RenderStep == lorMounted' /\ Len(requests') >= Len(requests)

\* Order o has a place to start from and a place to end at, each with
\* coordinates of its own.
BothHaveCoordinates(o) ==
    startWaypoint(o) # NoPlace /\ endWaypoint(o) # NoPlace

\* C11: a render issues a directions request exactly when it is the first
\* render, or the latitude or longitude of the origin or of the destination
\* differs from the previous render, and both origin and destination have
\* coordinates; a render with these four values unchanged issues none.
C11_FetchOnMountAndChange ==
    [][RenderStep =>
          ((Len(requests') = Len(requests) + 1)
              <=> (/\ ~lorMounted \/ FetchDeps(order') # FetchDeps(order)
                   /\ BothHaveCoordinates(order')))]_vars

\* C12: once every outstanding request has completed and the most recently
\* issued one returned a geometry, routeGeometry is that geometry, not the
\* geometry returned for an earlier origin and destination.
C12_LatestResponseDisplayed ==
    (/\ latest.issued /\ ~latest.inFlight
     /\ requests = <<>>
     /\ latest.geometry # <<>>)
    => routeGeometry = latest.geometry

====
